---- MODULE Spec2Model ----
(***************************************************************************)
(* Model of the documentation generator (generate-program-docs.js v2.1):   *)
(* filename classification, grouping by programId, output planning, the    *)
(* index page member order and the generated sidebar.                      *)
(*                                                                         *)
(* Strings are sequences of one-character strings, so that the regular     *)
(* expression, path.extname / path.basename, toLowerCase / toUpperCase,    *)
(* parseInt and the default (code unit) sort order are computed and not    *)
(* assumed.                                                                *)
(***************************************************************************)
EXTENDS Integers, Sequences, FiniteSets, TLC

(***************************************************************************)
(* Bounds of the model.                                                    *)
(***************************************************************************)
\* largest number of entries of the source directory in one run
MaxFiles == 3
\* largest number of file-system operations that fail in one run
MaxFaults == 1
\* largest number of runs of the generator on one output tree
MaxRuns == 2
\* the most change notifications raised while watching
MaxEvents == 2

(***************************************************************************)
(* Characters and strings.                                                 *)
(***************************************************************************)
Lower == <<"a","b","c","d","e","f","g","h","i","j","k","l","m",
           "n","o","p","q","r","s","t","u","v","w","x","y","z">>

Upper == <<"A","B","C","D","E","F","G","H","I","J","K","L","M",
           "N","O","P","Q","R","S","T","U","V","W","X","Y","Z">>

DigitChars == <<"0","1","2","3","4","5","6","7","8","9">>

\* the characters of the model in increasing UTF-16 code unit order
Ascii == <<" ", "-", ".", "/">> \o DigitChars \o <<":">> \o Upper \o <<"_">> \o Lower

Chars == {Ascii[i] : i \in 1..Len(Ascii)}

\* rank of a character in code unit order
Code == [c \in Chars |-> CHOOSE i \in 1..Len(Ascii) : Ascii[i] = c]

IsDigit(c) == \E i \in 1..10 : DigitChars[i] = c

DigitVal(c) == (CHOOSE i \in 1..10 : DigitChars[i] = c) - 1

IsLower(c) == \E i \in 1..26 : Lower[i] = c

IsUpper(c) == \E i \in 1..26 : Upper[i] = c

toLowerChar == [c \in Chars |-> IF IsUpper(c) THEN Lower[CHOOSE i \in 1..26 : Upper[i] = c] ELSE c]

toUpperChar == [c \in Chars |-> IF IsLower(c) THEN Upper[CHOOSE i \in 1..26 : Lower[i] = c] ELSE c]

\* String.prototype.toLowerCase
toLowerCase(s) == [i \in 1..Len(s) |-> toLowerChar[s[i]]]

\* String.prototype.toUpperCase
toUpperCase(s) == [i \in 1..Len(s) |-> toUpperChar[s[i]]]

\* s.startsWith(p)
startsWith(s, p) == Len(p) <= Len(s) /\ SubSeq(s, 1, Len(p)) = p

\* s.endsWith(p)
endsWith(s, p) == Len(p) <= Len(s) /\ SubSeq(s, Len(s) - Len(p) + 1, Len(s)) = p

\* position of the last occurrence of character c in s, 0 when there is none
lastIndexOf(s, c) ==
  IF \E i \in 1..Len(s) : s[i] = c
  THEN CHOOSE i \in 1..Len(s) : s[i] = c /\ \A j \in (i+1)..Len(s) : s[j] # c
  ELSE 0

\* the relational comparison a < b of two strings (code unit order)
StrLess(a, b) ==
  \/ Len(a) < Len(b) /\ SubSeq(b, 1, Len(a)) = a
  \/ \E i \in 1..Len(a) :
       /\ i <= Len(b)
       /\ SubSeq(a, 1, i-1) = SubSeq(b, 1, i-1)
       /\ Code[a[i]] < Code[b[i]]

\* a JavaScript number: an integer or NaN
NaN == [nan |-> TRUE, val |-> 0]

Num(n) == [nan |-> FALSE, val |-> n]

RECURSIVE DigitsValue(_)
DigitsValue(s) ==
  IF Len(s) = 0 THEN 0
  ELSE 10 * DigitsValue(SubSeq(s, 1, Len(s) - 1)) + DigitVal(s[Len(s)])

\* last position of the run of digits of s that starts at position i
\* (i - 1 when s[i] is not a digit)
DigitEnd(s, i) ==
  CHOOSE j \in (i-1)..Len(s) :
    /\ \A k \in i..j : IsDigit(s[k])
    /\ (j = Len(s) \/ ~IsDigit(s[j+1]))

\* parseInt(s, 10) for a string without sign or leading blanks: the value of
\* the leading digits, NaN when there are none
parseInt(s) ==
  LET e == DigitEnd(s, 1)
  IN IF e = 0 THEN NaN ELSE Num(DigitsValue(SubSeq(s, 1, e)))

RECURSIVE NatToStr(_)
NatToStr(n) ==
  IF n < 10 THEN <<DigitChars[n + 1]>>
  ELSE NatToStr(n \div 10) \o <<DigitChars[(n % 10) + 1]>>

\* String(x) of a JavaScript number
NumToStr(x) == IF x.nan THEN <<"N","a","N">> ELSE NatToStr(x.val)

(***************************************************************************)
(* path.basename and path.extname (POSIX).                                 *)
(***************************************************************************)
\* path.extname(p) of a path without trailing slash
extname(p) ==
  LET slash == lastIndexOf(p, "/")
      base  == SubSeq(p, slash + 1, Len(p))
      dot   == lastIndexOf(base, ".")
  IN IF dot <= 1 \/ base = <<".", ".">> THEN <<>>
     ELSE SubSeq(base, dot, Len(base))

\* path.basename(p)
basename(p) == SubSeq(p, lastIndexOf(p, "/") + 1, Len(p))

\* path.basename(p, ext)
basenameExt(p, ext) ==
  LET base == basename(p)
  IN IF Len(ext) > 0 /\ base # ext /\ endsWith(base, ext)
     THEN SubSeq(base, 1, Len(base) - Len(ext))
     ELSE base

(***************************************************************************)
(* String literals of the program.                                         *)
(***************************************************************************)
S_Chapt == <<"C","h","a","p","t">>

S_Exercise == <<"E","x","e","r","c","i","s","e">>

S_Fig == <<"F","i","g">>

S_chapter == <<"c","h","a","p","t","e","r">>

S_utilities == <<"u","t","i","l","i","t","i","e","s">>

S_Utility == <<"U","t","i","l","i","t","y">>

S_ChapterSp == <<"C","h","a","p","t","e","r"," ">>

S_index == <<"i","n","d","e","x">>

Ext_m == <<".","m">>

Ext_tex == <<".","t","e","x">>

Ext_ipynb == <<".","i","p","y","n","b">>

Ext_pdf == <<".","p","d","f">>

Ext_html == <<".","h","t","m","l">>

Ext_txt == <<".","t","x","t">>

Ext_mdx == <<".","m","d","x">>

(***************************************************************************)
(* Configuration tables.                                                   *)
(***************************************************************************)
\* CONFIG.SUPPORTED_EXTENSIONS
SUPPORTED_EXTENSIONS == {Ext_m, Ext_tex, Ext_ipynb, Ext_pdf, Ext_html, Ext_txt}

\* FILE_TYPES: extension -> descriptor (type tag, text readable, iframe)
FILE_TYPES ==
  [e \in {Ext_m, Ext_tex, Ext_ipynb, Ext_pdf, Ext_html, Ext_txt} |->
     CASE e = Ext_m     -> [type |-> "matlab", canReadText |-> TRUE,  useIframe |-> FALSE]
       [] e = Ext_tex   -> [type |-> "latex",  canReadText |-> TRUE,  useIframe |-> FALSE]
       [] e = Ext_ipynb -> [type |-> "ipynb",  canReadText |-> FALSE, useIframe |-> FALSE]
       [] e = Ext_pdf   -> [type |-> "pdf",    canReadText |-> FALSE, useIframe |-> TRUE]
       [] e = Ext_html  -> [type |-> "html",   canReadText |-> TRUE,  useIframe |-> TRUE]
       [] e = Ext_txt   -> [type |-> "text",   canReadText |-> TRUE,  useIframe |-> FALSE]]

\* the null of JavaScript
NULL == [isNull |-> TRUE]

\* the type tag written as a string of characters (used inside file names)
TypeChars(t) ==
  CASE t = "matlab" -> <<"m","a","t","l","a","b">>
    [] t = "latex"  -> <<"l","a","t","e","x">>
    [] t = "ipynb"  -> <<"i","p","y","n","b">>
    [] t = "pdf"    -> <<"p","d","f">>
    [] t = "html"   -> <<"h","t","m","l">>
    [] t = "text"   -> <<"t","e","x","t">>

\* CHAPTER_NAMES: the keys that have a display name
CHAPTER_NAMES ==
  [k \in {<<DigitChars[i + 1]>> : i \in 1..9} \cup {S_utilities} |->
     CASE k = <<"1">> -> "Introduction to Quantum Mechanics"
       [] k = <<"2">> -> "Schroedinger Equation"
       [] k = <<"3">> -> "Quantum Wells and Barriers"
       [] k = <<"4">> -> "Harmonic Oscillator"
       [] k = <<"5">> -> "Tunneling and Resonance"
       [] k = <<"6">> -> "Density of States"
       [] k = <<"7">> -> "Band Structure"
       [] k = <<"8">> -> "Perturbation Theory"
       [] k = <<"9">> -> "Statistical Mechanics"
       [] k = S_utilities -> "Utility Functions"]

\* getChapterName: the looked-up name, or the generic 'Chapter <chapterNum>'
getChapterName(chapterNum) ==
  IF chapterNum \in DOMAIN CHAPTER_NAMES
  THEN <<CHAPTER_NAMES[chapterNum]>>
  ELSE S_ChapterSp \o chapterNum

\* getFileTypeConfig(filename)
getFileTypeConfig(filename) ==
  LET ext == toLowerCase(extname(filename))
  IN IF ext \in DOMAIN FILE_TYPES THEN FILE_TYPES[ext] ELSE NULL

(***************************************************************************)
(* The program pattern: Chapt, digits, Exercise or Fig, digits, and an      *)
(* optional variant (a letter and digits), all under the i flag.           *)
(***************************************************************************)
\* equality of two strings under the i flag
EqIgnoreCase(a, b) == toLowerCase(a) = toLowerCase(b)

\* [a-z] under the i flag
IsLetterCI(c) == IsLower(c) \/ IsUpper(c)

\* s.substr(i, n) clipped to the string, positions from 1
Sub(s, i, n) == SubSeq(s, i, IF i + n - 1 > Len(s) THEN Len(s) ELSE i + n - 1)

NoMatch == [ok |-> FALSE]

\* the match of the pattern that starts at position p of s; with anchored the
\* match has to end at the end of s ($)
PatternAt(s, p, anchored) ==
  LET e1 == DigitEnd(s, p + 5)
      ty == IF EqIgnoreCase(Sub(s, e1 + 1, 8), S_Exercise) THEN Sub(s, e1 + 1, 8)
            ELSE IF EqIgnoreCase(Sub(s, e1 + 1, 3), S_Fig) THEN Sub(s, e1 + 1, 3)
            ELSE <<>>
      s3 == e1 + Len(ty) + 1
      e3 == DigitEnd(s, s3)
      hasVar == e3 < Len(s) /\ IsLetterCI(s[e3 + 1])
      e4 == IF hasVar THEN DigitEnd(s, e3 + 2) ELSE e3
  IN IF /\ EqIgnoreCase(Sub(s, p, 5), S_Chapt)
        /\ e1 >= p + 5
        /\ Len(ty) > 0
        /\ e3 >= s3
        /\ (anchored => e4 = Len(s))
     THEN [ok |-> TRUE,
           chapter |-> SubSeq(s, p + 5, e1),
           type |-> ty,
           number |-> SubSeq(s, s3, e3),
           hasVariant |-> hasVar,
           variant |-> SubSeq(s, e3 + 1, e4)]
     ELSE NoMatch

\* baseName.match(CONFIG.PROGRAM_PATTERN): anchored with ^ and $
PROGRAM_PATTERN(baseName) == PatternAt(baseName, 1, TRUE)

\* programId.match of the same pattern without ^ and $: the leftmost match
LabelPattern(s) ==
  IF \E p \in 1..Len(s) : PatternAt(s, p, FALSE).ok
  THEN PatternAt(s, CHOOSE p \in 1..Len(s) :
                      /\ PatternAt(s, p, FALSE).ok
                      /\ \A q \in 1..(p-1) : ~PatternAt(s, q, FALSE).ok, FALSE)
  ELSE NoMatch

(***************************************************************************)
(* extractProgramInfo.                                                     *)
(***************************************************************************)
extractProgramInfo(filename) ==
  LET baseName == basenameExt(filename, extname(filename))
      match    == PROGRAM_PATTERN(baseName)
      ext      == toLowerCase(extname(filename))
  IN IF ~match.ok
     THEN IF ext \notin SUPPORTED_EXTENSIONS
          THEN NULL
          ELSE [programId      |-> baseName,
                chapter        |-> S_utilities,
                chapterNum     |-> S_utilities,
                type           |-> S_Utility,
                number         |-> <<>>,
                variant        |-> <<>>,
                displayName    |-> baseName,
                chapterDisplay |-> Num(99),
                isUtility      |-> TRUE]
     ELSE [programId      |-> S_Chapt \o match.chapter \o match.type
                                \o match.number \o match.variant,
           chapter        |-> S_chapter \o match.chapter,
           chapterNum     |-> match.chapter,
           type           |-> match.type,
           number         |-> match.number,
           variant        |-> match.variant,
           displayName    |-> S_ChapterSp \o match.chapter \o <<" ","-"," ">>
                                \o match.type \o <<" ">> \o match.number
                                \o toUpperCase(match.variant),
           chapterDisplay |-> parseInt(match.chapter),
           isUtility      |-> FALSE]

(***************************************************************************)
(* Array.prototype.sort as Node's engine runs it on arrays shorter than 64 *)
(* elements: one run is counted (and reversed when strictly descending),   *)
(* the rest is added by binary insertion.  c is the comparison function as *)
(* a table of signs; a NaN result counts as 0.  Positions count from 0.    *)
(***************************************************************************)
Reverse(a) == [i \in 1..Len(a) |-> a[Len(a) + 1 - i]]

\* CountAndMakeRun: the length of the first run of a, and whether it descends
CountRun(a, c) ==
  LET n    == Len(a)
      desc == c[<<a[2], a[1]>>] < 0
      ok(idx) == IF desc THEN c[<<a[idx], a[idx-1]>>] < 0
                 ELSE c[<<a[idx], a[idx-1]>>] >= 0
      len  == CHOOSE r \in 2..n :
                /\ \A idx \in 3..r : ok(idx)
                /\ (r = n \/ ~ok(r + 1))
  IN [len |-> len, desc |-> desc]

\* the binary search of BinaryInsertionSort for pivot in a[left..right-1]
RECURSIVE BinarySearch(_, _, _, _, _)
BinarySearch(a, pivot, left, right, c) ==
  IF left >= right THEN left
  ELSE LET mid == left + ((right - left) \div 2)
       IN IF c[<<pivot, a[mid + 1]>>] < 0
          THEN BinarySearch(a, pivot, left, mid, c)
          ELSE BinarySearch(a, pivot, mid + 1, right, c)

\* BinaryInsertionSort: a[0..start-1] is sorted, insert a[start..]
RECURSIVE BinaryInsertionSort(_, _, _)
BinaryInsertionSort(a, start, c) ==
  IF start >= Len(a) THEN a
  ELSE LET pivot == a[start + 1]
           left  == BinarySearch(a, pivot, 0, start, c)
           b     == SubSeq(a, 1, left) \o <<pivot>> \o SubSeq(a, left + 1, start)
                      \o SubSeq(a, start + 2, Len(a))
       IN BinaryInsertionSort(b, start + 1, c)

ArraySort(a, c) ==
  IF Len(a) < 2 THEN a
  ELSE LET run == CountRun(a, c)
           b   == IF run.desc
                  THEN Reverse(SubSeq(a, 1, run.len)) \o SubSeq(a, run.len + 1, Len(a))
                  ELSE a
       IN BinaryInsertionSort(b, run.len, c)

\* the elements of a sequence
Range(a) == {a[i] : i \in 1..Len(a)}

\* the sign of x - y for two JavaScript numbers; NaN gives 0
SignOfDifference(x, y) ==
  IF x.nan \/ y.nan THEN 0
  ELSE IF x.val < y.val THEN -1 ELSE IF x.val > y.val THEN 1 ELSE 0

\* the default comparison of sort() without argument, on strings
DefaultCompare(x, y) == IF StrLess(x, y) THEN -1 ELSE IF StrLess(y, x) THEN 1 ELSE 0

\* Array.from(set).sort()
SortStrings(a) ==
  ArraySort(a, [p \in Range(a) \X Range(a) |-> DefaultCompare(p[1], p[2])])

(***************************************************************************)
(* generateIndexPage: the member list sorted by type.                      *)
(***************************************************************************)
typeOrder == <<"matlab", "latex", "pdf", "html", "ipynb", "text">>

\* typeOrder.indexOf(t)
TypeIndex(t) ==
  IF \E i \in 1..Len(typeOrder) : typeOrder[i] = t
  THEN (CHOOSE i \in 1..Len(typeOrder) : typeOrder[i] = t) - 1
  ELSE -1

\* the comparison function of filesList.sort in generateIndexPage
TypeCompare(a, b) ==
  LET d == TypeIndex(a.fileType) - TypeIndex(b.fileType)
  IN IF d < 0 THEN -1 ELSE IF d > 0 THEN 1 ELSE 0

SortFilesList(filesList) ==
  ArraySort(filesList,
            [p \in Range(filesList) \X Range(filesList) |-> TypeCompare(p[1], p[2])])

\* the index page of a program: its identity and the sorted member cards
generateIndexPage(programInfo, filesList) ==
  [page        |-> "index",
   programId   |-> programInfo.programId,
   displayName |-> programInfo.displayName,
   chapterName |-> getChapterName(programInfo.chapterNum),
   files       |-> [i \in 1..Len(filesList) |->
                      [filename |-> SortFilesList(filesList)[i].filename,
                       fileType |-> SortFilesList(filesList)[i].fileType,
                       link     |-> programInfo.programId \o <<"_">>
                                      \o TypeChars(SortFilesList(filesList)[i].fileType)]]]

\* generateDetailPage: every type of FILE_TYPES has a generator
generateDetailPage(programInfo, filename, staticPath, fileContent, config) ==
  IF TypeIndex(config.type) >= 0
  THEN [page       |-> "detail",
        programId  |-> programInfo.programId,
        filename   |-> filename,
        type       |-> config.type,
        staticPath |-> staticPath,
        content    |-> IF config.canReadText THEN fileContent ELSE <<>>]
  ELSE NULL

(***************************************************************************)
(* updateSidebar: the categories written to sidebars.js.                   *)
(***************************************************************************)
\* the comparison function (a, b) => parseInt(a) - parseInt(b)
ChapterCompare(a, b) == SignOfDifference(parseInt(a), parseInt(b))

SortChapters(keys) ==
  ArraySort(keys, [p \in Range(keys) \X Range(keys) |-> ChapterCompare(p[1], p[2])])

\* SidebarLabel that shows the full programId
SidebarLabel_FullId(programId) == programId

\* the label of a sidebar entry
SidebarLabel(programId) ==
  LET match == LabelPattern(programId)
  IN IF match.ok
     THEN match.type \o <<" ">> \o match.number \o toUpperCase(match.variant)
     ELSE programId

\* the programs of chapter key k in the chapter map
ProgramsOf(byCh, k) == (CHOOSE i \in 1..Len(byCh) : byCh[i].chapterNum = k)

SidebarCategory(byCh, chapterNum) ==
  LET programs == SortStrings(byCh[ProgramsOf(byCh, chapterNum)].programs)
  IN [label |-> <<"C","h"," ">> \o NumToStr(parseInt(chapterNum)) \o <<":"," ">>
                  \o getChapterName(chapterNum),
      items |-> [i \in 1..Len(programs) |->
                   [id    |-> <<S_chapter \o chapterNum, programs[i], S_index>>,
                    label |-> SidebarLabel(programs[i])]]]

SidebarCategories(byCh) ==
  LET keys == SortChapters([i \in 1..Len(byCh) |-> byCh[i].chapterNum])
  IN [i \in 1..Len(keys) |-> SidebarCategory(byCh, keys[i])]

(***************************************************************************)
(* The source directory: the file names a run can find in it.              *)
(***************************************************************************)
B_Chapt3Exercise10 == S_Chapt \o <<"3">> \o S_Exercise \o <<"1","0">>

\* the relative paths the source directory is populated from; one of them
\* lies in a subdirectory (found with --recursive only) and has the file name
\* of a top-level file, one has an unsupported extension
FilePool ==
  { B_Chapt3Exercise10 \o Ext_m,
    B_Chapt3Exercise10 \o Ext_pdf,
    B_Chapt3Exercise10 \o Ext_tex,
    B_Chapt3Exercise10 \o <<".","M">>,
    <<"c","h","a","p","t","3">> \o S_Exercise \o <<"1","0">> \o Ext_html,
    S_Chapt \o <<"3","e","x","e","r","c","i","s","e","1","0">> \o Ext_txt,
    S_Chapt \o <<"2">> \o S_Fig \o <<"3","a">> \o Ext_pdf,
    S_Chapt \o <<"2">> \o S_Fig \o <<"3","A">> \o Ext_m,
    S_Chapt \o <<"1","0">> \o S_Fig \o <<"1">> \o Ext_m,
    <<"f","e","r","m","i">> \o Ext_m,
    <<"n","o","t","e","s",".","m","d">>,
    <<"s","u","b","/">> \o B_Chapt3Exercise10 \o Ext_m }

\* the outcomes of the file-system calls made for one member file
MemberOutcomes == {"ok", "mkdirThrow", "copyFail", "readFail", "writeFail"}

\* the outcomes of the file-system calls made for one program besides its
\* members: creating its docs directory and writing its index page
ProgramOutcomes == {"ok", "mkdirThrow", "indexFail"}

VARIABLES
  inboxExists,     \* fs.existsSync(CONFIG.INBOX_DIR)
  inbox,           \* the relative paths of the files below CONFIG.INBOX_DIR
  recursive,       \* CONFIG.RECURSIVE
  pc,              \* position of the run: "start", "group", "emit", "sidebar",
                   \* "done", "crashed" (an uncaught exception ended it)
  supportedFiles,  \* the scanned and filtered file list, in scan order
  fileIdx,         \* files of supportedFiles grouped so far
  programFiles,    \* stats.programFiles, in Map insertion order
  byChapter,       \* stats.byChapter, keys and members in insertion order
  processed,       \* stats.processed
  skipped,         \* stats.skipped
  utilities,       \* stats.utilities
  progIdx,         \* programs of programFiles emitted so far
  faults,          \* the file-system calls that failed in this run
  ioLog,           \* the copies and writes of this run that succeeded, in order
  docsDirs,        \* directories below CONFIG.DOCS_OUTPUT_DIR
  docs,            \* documents below CONFIG.DOCS_OUTPUT_DIR: path -> page
  staticDirs,      \* directories of CONFIG.STATIC_OUTPUT_DIR (<<>> is the root)
  static,          \* files below CONFIG.STATIC_OUTPUT_DIR: path -> source copied
  sidebar,         \* sidebars.js: whether it has been written, and its categories
  run,             \* the number of the current invocation of the script
  prev,            \* history: the source, result and output tree the current
                   \* invocation started from
  watcher,         \* watchMode: "none" before fs.watch is called, "open" with
                   \* the watcher registered, "absent" and "failed" without one
  timeout,         \* the timer handle of debounce: whether a timer is pending
                   \* and the time in ms until it is due
  pending,         \* change notifications raised and not yet handed to the
                   \* callback of fs.watch, oldest first
  lastChange,      \* history: ms since the last notification for a supported
                   \* file was raised, counted up to the debounce wait
  notified,        \* history: the number of notifications raised
  burst,           \* history: the calls of the debounced function since the
                   \* timer was last idle
  bursts,          \* history: the number of times an idle timer was armed
  callback         \* history: the last call of the callback of fs.watch

vars == <<inboxExists, inbox, recursive, pc, supportedFiles, fileIdx,
          programFiles, byChapter, processed, skipped, utilities, progIdx,
          faults, ioLog, docsDirs, docs, staticDirs, static, sidebar, run, prev,
          watcher, timeout, pending, lastChange, notified, burst, bursts,
          callback>>

runVars == <<run, prev>>

watchVars == <<watcher, timeout, pending, lastChange, notified, burst, bursts,
               callback>>

sourceVars == <<inboxExists, inbox, recursive>>

outputVars == <<docsDirs, docs, staticDirs, static, sidebar>>

\* sidebars.js before the generator has written it
NoSidebar == [written |-> FALSE, categories |-> <<>>]

\* the empty file tree: a function with empty domain
EmptyTree == [x \in {} |-> NULL]

\* the output tree: docs, static/programs and sidebars.js
Out == [docsDirs |-> docsDirs, docs |-> docs, staticDirs |-> staticDirs,
        static |-> static, sidebar |-> sidebar]

\* the history of the first invocation: nothing ran before it, the output
\* tree is empty
NoPrev == [op |-> "none", inboxExists |-> FALSE, inbox |-> {},
           supportedFiles |-> <<>>, faults |-> {},
           out |-> [docsDirs |-> {}, docs |-> EmptyTree, staticDirs |-> {},
                    static |-> EmptyTree, sidebar |-> NoSidebar]]

\* the wait given to debounce by watchMode, in ms
DebounceWait == 1000

\* the timer handle of debounce with no timer pending
NoTimer == [set |-> FALSE, due |-> 0]

\* the history of the callback of fs.watch before its first call
NoCallback == [n |-> 0, filename |-> <<>>, timer |-> NoTimer, during |-> 0]

\* WriteAt that empties the tree before it writes
WriteAt_Truncates(tree, path, content) == [x \in {path} |-> content]

\* writing or copying to a path of a tree
WriteAt(tree, path, content) ==
  [x \in DOMAIN tree \cup {path} |-> IF x = path THEN content ELSE tree[x]]

\* all orders of a finite set
Orders(S) ==
  {f \in [1..Cardinality(S) -> S] : \A i, j \in 1..Cardinality(S) : i # j => f[i] # f[j]}

\* scanDirectory: the files of the directory, those of subdirectories only
\* when recursive
ScanResult(files, rec) == {f \in files : rec \/ lastIndexOf(f, "/") = 0}

\* the filter of processAllPrograms on the scanned paths
IsSupported(f) == toLowerCase(extname(f)) \in SUPPORTED_EXTENSIONS

\* the part of FilePool for which failing file-system calls are explored
FaultPool ==
  { B_Chapt3Exercise10 \o Ext_m,
    B_Chapt3Exercise10 \o Ext_pdf,
    B_Chapt3Exercise10 \o Ext_tex,
    B_Chapt3Exercise10 \o <<".","M">>,
    S_Chapt \o <<"2">> \o S_Fig \o <<"3","a">> \o Ext_pdf,
    <<"f","e","r","m","i">> \o Ext_m }

\* the number of file-system calls that may fail in a run over these files
FaultBudget(files) == IF files \subseteq FaultPool THEN MaxFaults ELSE 0

\* the state before a run over a source directory populated from pool; the
\* --recursive flag is set only where it changes the scan
InitFrom(pool) ==
  /\ inboxExists \in BOOLEAN
  /\ inbox \in {S \in SUBSET pool : Cardinality(S) <= MaxFiles}
  /\ inboxExists = FALSE => inbox = {}
  /\ recursive \in BOOLEAN
  /\ recursive => \E f \in inbox : lastIndexOf(f, "/") > 0
  /\ pc = "start"
  /\ supportedFiles = <<>>
  /\ fileIdx = 0
  /\ programFiles = <<>>
  /\ byChapter = <<>>
  /\ processed = 0
  /\ skipped = 0
  /\ utilities = 0
  /\ progIdx = 0
  /\ faults = {}
  /\ ioLog = <<>>
  /\ docsDirs = {}
  /\ docs = EmptyTree
  /\ staticDirs = {}
  /\ static = EmptyTree
  /\ sidebar = NoSidebar
  /\ run = 1
  /\ prev = NoPrev
  /\ watcher = "none"
  /\ timeout = NoTimer
  /\ pending = <<>>
  /\ lastChange = DebounceWait
  /\ notified = 0
  /\ burst = 0
  /\ bursts = 0
  /\ callback = NoCallback

Init == InitFrom(FilePool)

(***************************************************************************)
(* processAllPrograms, the start: existence check, scan and filter.        *)
(***************************************************************************)
\* Scan that goes on to write a sidebar without categories when the source
\* directory is missing
Scan_MissingSourceWritesSidebar ==
  /\ pc = "start"
  /\ IF ~inboxExists
     THEN /\ pc' = "done"
          /\ sidebar' = [written |-> TRUE, categories |-> <<>>]
          /\ UNCHANGED supportedFiles
     ELSE \E all \in Orders(ScanResult(inbox, recursive)) :
            LET sup == SelectSeq(all, IsSupported)
            IN /\ supportedFiles' = sup
               /\ pc' = IF Len(sup) = 0 THEN "done" ELSE "group"
               /\ UNCHANGED sidebar
  /\ UNCHANGED <<fileIdx, programFiles, byChapter, processed, skipped,
                 utilities, progIdx, faults, ioLog>>
  /\ UNCHANGED sourceVars
  /\ UNCHANGED <<docsDirs, docs, staticDirs, static>>
  /\ UNCHANGED runVars
  /\ UNCHANGED watchVars

Scan ==
  /\ pc = "start"
  /\ IF ~inboxExists
     THEN /\ pc' = "done"
          /\ UNCHANGED supportedFiles
     ELSE \E all \in Orders(ScanResult(inbox, recursive)) :
            LET sup == SelectSeq(all, IsSupported)
            IN /\ supportedFiles' = sup
               /\ pc' = IF Len(sup) = 0 THEN "done" ELSE "group"
  /\ UNCHANGED <<fileIdx, programFiles, byChapter, processed, skipped,
                 utilities, progIdx, faults, ioLog>>
  /\ UNCHANGED sourceVars
  /\ UNCHANGED outputVars
  /\ UNCHANGED runVars
  /\ UNCHANGED watchVars

(***************************************************************************)
(* First pass: the callback of supportedFiles.forEach.                     *)
(***************************************************************************)
\* position of the key in a Map kept as a sequence, 0 when absent
GroupIndex(pf, programId) ==
  IF \E i \in 1..Len(pf) : pf[i].programId = programId
  THEN CHOOSE i \in 1..Len(pf) : pf[i].programId = programId
  ELSE 0

ChapterIndex(byCh, chapterNum) ==
  IF \E i \in 1..Len(byCh) : byCh[i].chapterNum = chapterNum
  THEN CHOOSE i \in 1..Len(byCh) : byCh[i].chapterNum = chapterNum
  ELSE 0

\* AddToGroup with the Map keyed by the file name instead of the programId
AddToGroup_KeyedByFileName(pf, programInfo, member) ==
  LET g == GroupIndex(pf, member.filename)
  IN IF g = 0
     THEN Append(pf, [programId   |-> member.filename,
                      programInfo |-> programInfo,
                      files       |-> <<member>>])
     ELSE [pf EXCEPT ![g].files = Append(@, member)]

\* AddToGroup that assigns the member list of an existing group instead of
\* pushing to it
AddToGroup_ReplacesMembers(pf, programInfo, member) ==
  LET g == GroupIndex(pf, programInfo.programId)
  IN IF g = 0
     THEN Append(pf, [programId   |-> programInfo.programId,
                      programInfo |-> programInfo,
                      files       |-> <<member>>])
     ELSE [pf EXCEPT ![g].files = <<member>>]

\* stats.programFiles after the file has been pushed to the group of programId
AddToGroup(pf, programInfo, member) ==
  LET g == GroupIndex(pf, programInfo.programId)
  IN IF g = 0
     THEN Append(pf, [programId   |-> programInfo.programId,
                      programInfo |-> programInfo,
                      files       |-> <<member>>])
     ELSE [pf EXCEPT ![g].files = Append(@, member)]

\* stats.byChapter after programId has been added to the set of chapterNum
AddToChapter(byCh, chapterNum, programId) ==
  LET k == ChapterIndex(byCh, chapterNum)
  IN IF k = 0
     THEN Append(byCh, [chapterNum |-> chapterNum, programs |-> <<programId>>])
     ELSE IF programId \in Range(byCh[k].programs)
          THEN byCh
          ELSE [byCh EXCEPT ![k].programs = Append(@, programId)]

GroupFile ==
  /\ pc = "group"
  /\ fileIdx < Len(supportedFiles)
  /\ LET filePath    == supportedFiles[fileIdx + 1]
         filename    == basename(filePath)
         programInfo == extractProgramInfo(filename)
         config      == getFileTypeConfig(filename)
     IN /\ fileIdx' = fileIdx + 1
        /\ pc' = IF fileIdx + 1 = Len(supportedFiles) THEN "emit" ELSE "group"
        /\ IF programInfo = NULL \/ config = NULL
           THEN /\ skipped' = skipped + 1
                /\ UNCHANGED <<programFiles, byChapter, utilities>>
           ELSE /\ utilities' = IF programInfo.isUtility THEN utilities + 1 ELSE utilities
                /\ programFiles' = AddToGroup(programFiles, programInfo,
                                      [filename |-> filename, filePath |-> filePath,
                                       config |-> config])
                /\ byChapter' = AddToChapter(byChapter, programInfo.chapterNum,
                                             programInfo.programId)
                /\ UNCHANGED skipped
  /\ UNCHANGED <<supportedFiles, processed, progIdx, faults, ioLog>>
  /\ UNCHANGED sourceVars
  /\ UNCHANGED outputVars
  /\ UNCHANGED runVars
  /\ UNCHANGED watchVars

(***************************************************************************)
(* Second pass: the callback of stats.programFiles.forEach.                *)
(***************************************************************************)
\* the directories fs.mkdirSync(dir, {recursive: true}) leaves for a path
WithParents(dir) == {SubSeq(dir, 1, n) : n \in 0..Len(dir)}

S_indexMdx == S_index \o Ext_mdx

\* ProgramDocsDir that names the directory after kind and number only
ProgramDocsDir_NoVariant(programInfo) ==
  <<programInfo.chapter, programInfo.type \o programInfo.number>>

\* programDocsDir below CONFIG.DOCS_OUTPUT_DIR: <chapter>/<programId>
ProgramDocsDir(programInfo) == <<programInfo.chapter, programInfo.programId>>

\* programStaticDir below CONFIG.STATIC_OUTPUT_DIR: <type>/<programId>
ProgramStaticDir(programId, config) == <<config.type, programId>>

\* StaticDestPath that names the copy after the program and the lower-cased
\* extension instead of keeping the original file name
StaticDestPath_Renamed(programId, filename, config) ==
  Append(<<config.type, programId>>, programId \o toLowerCase(extname(filename)))

\* staticDestPath: <type>/<programId>/<filename>
StaticDestPath(programId, filename, config) ==
  Append(ProgramStaticDir(programId, config), filename)

\* DetailFileName without the type tag
DetailFileName_NoType(programId, config) == programId \o Ext_mdx

\* detailFileName: <programId>_<type>.mdx
DetailFileName(programId, config) ==
  programId \o <<"_">> \o TypeChars(config.type) \o Ext_mdx

\* EmitMember that returns after a failed copy without counting the file as
\* skipped
EmitMember_CopyFailNotCounted(acc, member, outcome, programInfo) ==
  LET programId        == programInfo.programId
      config           == member.config
      programStaticDir == ProgramStaticDir(programId, config)
      dirMissing       == programStaticDir \notin acc.staticDirs
      staticDestPath   == StaticDestPath(programId, member.filename, config)
      staticPath       == <<"programs", config.type, programId, member.filename>>
      fileContent      == IF outcome = "readFail" THEN <<>> ELSE <<member.filePath>>
      detailContent    == generateDetailPage(programInfo, member.filename, staticPath,
                                             fileContent, config)
      detailPath       == Append(ProgramDocsDir(programInfo),
                                 DetailFileName(programId, config))
      dirsAfter        == acc.staticDirs \cup WithParents(programStaticDir)
      entry            == [filename |-> member.filename, fileType |-> config.type,
                           staticPath |-> staticPath, config |-> config]
      copied           == [acc EXCEPT
                             !.staticDirs = dirsAfter,
                             !.static = WriteAt(@, staticDestPath, member.filePath),
                             !.log = Append(@, [call |-> "copy", src |-> member.filePath,
                                                dest |-> staticDestPath])]
  IN IF acc.crashed \/ acc.invalid THEN acc
     ELSE IF outcome = "mkdirThrow"
     THEN IF dirMissing THEN [acc EXCEPT !.crashed = TRUE]
          ELSE [acc EXCEPT !.invalid = TRUE]
     ELSE IF outcome = "copyFail"
     THEN [acc EXCEPT !.staticDirs = dirsAfter]
     ELSE IF outcome = "readFail" /\ ~config.canReadText
     THEN [acc EXCEPT !.invalid = TRUE]
     ELSE IF detailContent = NULL
     THEN [copied EXCEPT !.filesList = Append(@, entry)]
     ELSE IF outcome = "writeFail"
     THEN [copied EXCEPT !.skipped = @ + 1,
                         !.filesList = Append(@, entry)]
     ELSE [copied EXCEPT !.docs = WriteAt(@, detailPath, detailContent),
                         !.log = Append(@, [call |-> "write", src |-> member.filePath,
                                            dest |-> detailPath]),
                         !.processed = @ + 1,
                         !.filesList = Append(@, entry)]

\* the callback of files.forEach for one member, applied to the accumulated
\* effect acc of the members before it; outcome says which of its file-system
\* calls fails
EmitMember(acc, member, outcome, programInfo) ==
  LET programId        == programInfo.programId
      config           == member.config
      programStaticDir == ProgramStaticDir(programId, config)
      dirMissing       == programStaticDir \notin acc.staticDirs
      staticDestPath   == StaticDestPath(programId, member.filename, config)
      staticPath       == <<"programs", config.type, programId, member.filename>>
      fileContent      == IF outcome = "readFail" THEN <<>> ELSE <<member.filePath>>
      detailContent    == generateDetailPage(programInfo, member.filename, staticPath,
                                             fileContent, config)
      detailPath       == Append(ProgramDocsDir(programInfo),
                                 DetailFileName(programId, config))
      dirsAfter        == acc.staticDirs \cup WithParents(programStaticDir)
      entry            == [filename |-> member.filename, fileType |-> config.type,
                           staticPath |-> staticPath, config |-> config]
      copied           == [acc EXCEPT
                             !.staticDirs = dirsAfter,
                             !.static = WriteAt(@, staticDestPath, member.filePath),
                             !.log = Append(@, [call |-> "copy", src |-> member.filePath,
                                                dest |-> staticDestPath])]
  IN IF acc.crashed \/ acc.invalid THEN acc
     ELSE IF outcome = "mkdirThrow"
     THEN IF dirMissing THEN [acc EXCEPT !.crashed = TRUE]
          ELSE [acc EXCEPT !.invalid = TRUE]
     ELSE IF outcome = "copyFail"
     THEN [acc EXCEPT !.staticDirs = dirsAfter, !.skipped = @ + 1]
     ELSE IF outcome = "readFail" /\ ~config.canReadText
     THEN [acc EXCEPT !.invalid = TRUE]
     ELSE IF detailContent = NULL
     THEN [copied EXCEPT !.filesList = Append(@, entry)]
     ELSE IF outcome = "writeFail"
     THEN [copied EXCEPT !.skipped = @ + 1,
                         !.filesList = Append(@, entry)]
     ELSE [copied EXCEPT !.docs = WriteAt(@, detailPath, detailContent),
                         !.log = Append(@, [call |-> "write", src |-> member.filePath,
                                            dest |-> detailPath]),
                         !.processed = @ + 1,
                         !.filesList = Append(@, entry)]

\* files.forEach: the members in insertion order
RECURSIVE EmitMembers(_, _, _, _, _)
EmitMembers(acc, files, outcomes, i, programInfo) ==
  IF i > Len(files) THEN acc
  ELSE EmitMembers(EmitMember(acc, files[i], outcomes[i], programInfo),
                   files, outcomes, i + 1, programInfo)

\* the whole callback for one program: docs directory, members, index page
EmitProgram(group, po, outcomes) ==
  LET programInfo    == group.programInfo
      programDocsDir == ProgramDocsDir(programInfo)
      dirMissing     == programDocsDir \notin docsDirs
      start == [staticDirs |-> staticDirs, static |-> static,
                docsDirs   |-> IF po = "mkdirThrow" THEN docsDirs
                               ELSE docsDirs \cup (WithParents(programDocsDir) \ {<<>>}),
                docs       |-> docs,
                log        |-> ioLog,
                processed  |-> processed, skipped |-> skipped,
                filesList  |-> <<>>,
                crashed    |-> po = "mkdirThrow" /\ dirMissing,
                invalid    |-> po = "mkdirThrow" /\ ~dirMissing]
      after == EmitMembers(start, group.files, outcomes, 1, programInfo)
      indexPath == Append(programDocsDir, S_indexMdx)
  IN IF after.crashed \/ after.invalid THEN after
     ELSE IF Len(after.filesList) = 0
     THEN [after EXCEPT !.invalid = (po = "indexFail")]
     ELSE IF po = "indexFail" THEN after
     ELSE [after EXCEPT !.docs = WriteAt(@, indexPath,
                                   generateIndexPage(programInfo, after.filesList)),
                        !.log = Append(@, [call |-> "write", src |-> group.programId,
                                           dest |-> indexPath])]

\* the failing calls of a choice of outcomes, each with the file or program
\* it was made for
FaultsOf(group, po, outcomes) ==
  {[target |-> group.files[i].filePath, call |-> outcomes[i]] :
     i \in {j \in DOMAIN outcomes : outcomes[j] # "ok"}}
  \cup (IF po = "ok" THEN {} ELSE {[target |-> group.programId, call |-> po]})

ProcessProgram ==
  /\ pc = "emit"
  /\ progIdx < Len(programFiles)
  /\ LET group == programFiles[progIdx + 1]
     IN \E po \in ProgramOutcomes :
        \E outcomes \in [1..Len(group.files) -> MemberOutcomes] :
          LET r == EmitProgram(group, po, outcomes)
          IN /\ Cardinality(faults \cup FaultsOf(group, po, outcomes)) <= FaultBudget(inbox)
             /\ ~r.invalid
             /\ faults' = faults \cup FaultsOf(group, po, outcomes)
             /\ docsDirs' = r.docsDirs
             /\ docs' = r.docs
             /\ staticDirs' = r.staticDirs
             /\ static' = r.static
             /\ ioLog' = r.log
             /\ processed' = r.processed
             /\ skipped' = r.skipped
             /\ progIdx' = progIdx + 1
             /\ pc' = IF r.crashed THEN "crashed"
                      ELSE IF progIdx + 1 = Len(programFiles) THEN "sidebar"
                      ELSE "emit"
  /\ UNCHANGED <<supportedFiles, fileIdx, programFiles, byChapter, utilities, sidebar>>
  /\ UNCHANGED sourceVars
  /\ UNCHANGED runVars
  /\ UNCHANGED watchVars

(***************************************************************************)
(* updateSidebar(stats.byChapter) and the end of the run.                  *)
(***************************************************************************)
\* UpdateSidebar that adds the categories to those sidebars.js already has
\* instead of replacing them
UpdateSidebar_Appends ==
  /\ pc = "sidebar"
  /\ sidebar' = [written |-> TRUE,
                 categories |-> sidebar.categories \o SidebarCategories(byChapter)]
  /\ ioLog' = Append(ioLog, [call |-> "write", src |-> <<>>, dest |-> <<"sidebars.js">>])
  /\ pc' = "done"
  /\ UNCHANGED <<supportedFiles, fileIdx, programFiles, byChapter, processed,
                 skipped, utilities, progIdx, faults>>
  /\ UNCHANGED <<docsDirs, docs, staticDirs, static>>
  /\ UNCHANGED sourceVars
  /\ UNCHANGED runVars
  /\ UNCHANGED watchVars

UpdateSidebar ==
  /\ pc = "sidebar"
  /\ \E writeOk \in BOOLEAN :
       /\ ~writeOk => Cardinality(faults) < FaultBudget(inbox)
       /\ faults' = IF writeOk THEN faults
                    ELSE faults \cup {[target |-> <<>>, call |-> "sidebarFail"]}
       /\ sidebar' = IF writeOk
                     THEN [written |-> TRUE, categories |-> SidebarCategories(byChapter)]
                     ELSE sidebar
       /\ ioLog' = IF writeOk
                   THEN Append(ioLog, [call |-> "write", src |-> <<>>, dest |-> <<"sidebars.js">>])
                   ELSE ioLog
  /\ pc' = "done"
  /\ UNCHANGED <<supportedFiles, fileIdx, programFiles, byChapter, processed,
                 skipped, utilities, progIdx>>
  /\ UNCHANGED <<docsDirs, docs, staticDirs, static>>
  /\ UNCHANGED sourceVars
  /\ UNCHANGED runVars
  /\ UNCHANGED watchVars

Next == Scan \/ GroupFile \/ ProcessProgram \/ UpdateSidebar

Spec == Init /\ [][Next]_vars

(***************************************************************************)
(* Chapter 3 of the workflow example of the file organization guide: the   *)
(* sidebar that shows Exercise 7, Exercise 10 and Fig 14.                  *)
(***************************************************************************)
Chapter3Pool ==
  { S_Chapt \o <<"3">> \o S_Exercise \o <<"7">> \o Ext_m,
    B_Chapt3Exercise10 \o Ext_m,
    B_Chapt3Exercise10 \o Ext_pdf,
    S_Chapt \o <<"3">> \o S_Fig \o <<"1","4">> \o Ext_m,
    S_Chapt \o <<"3">> \o S_Fig \o <<"2">> \o Ext_pdf }

InitChapter3 == InitFrom(Chapter3Pool)

SpecChapter3 == InitChapter3 /\ [][Next]_vars

(***************************************************************************)
(* Names at the edge of the naming pattern: chapter numbers outside 1..9,  *)
(* a chapter written with a leading zero, and a utility whose name         *)
(* contains a program name.                                                *)
(***************************************************************************)
EdgePool ==
  { S_Chapt \o <<"0">> \o S_Fig \o <<"1">> \o Ext_m,
    S_Chapt \o <<"0","5">> \o S_Fig \o <<"1">> \o Ext_m,
    S_Chapt \o <<"5">> \o S_Exercise \o <<"5">> \o Ext_pdf,
    S_Chapt \o <<"1","0">> \o S_Fig \o <<"1">> \o Ext_m,
    <<"o","l","d","_">> \o S_Chapt \o <<"1">> \o S_Fig \o <<"2","b">> \o Ext_m,
    <<"R","E","A","D","M","E">> \o Ext_txt }

InitEdge == InitFrom(EdgePool)

SpecEdge == InitEdge /\ [][Next]_vars

(***************************************************************************)
(* Several invocations on one output tree: the script is started again     *)
(* (the entry point, or the debounced callback of watchMode) after the     *)
(* source directory may have changed, or with --clean.                     *)
(***************************************************************************)
\* the source directories of the invocations
RunsPool ==
  { S_Chapt \o <<"1","0">> \o S_Fig \o <<"1">> \o Ext_m,
    S_Chapt \o <<"1","0">> \o S_Fig \o <<"1">> \o Ext_pdf,
    <<"f","e","r","m","i">> \o Ext_m,
    <<"n","o","t","e","s",".","m","d">> }

\* the next invocation of processAllPrograms: fresh statistics, the output
\* tree as the invocations before left it
StartRun(pool) ==
  /\ pc \in {"done", "crashed", "cleaned"}
  /\ run < MaxRuns
  /\ run' = run + 1
  /\ prev' = [op |-> IF pc = "cleaned" THEN "clean" ELSE "run",
              inboxExists |-> inboxExists, inbox |-> inbox,
              supportedFiles |-> supportedFiles, faults |-> faults,
              out |-> Out]
  /\ inboxExists' \in BOOLEAN
  /\ inbox' \in {S \in SUBSET pool : Cardinality(S) <= MaxFiles}
  /\ inboxExists' = FALSE => inbox' = {}
  /\ recursive' \in BOOLEAN
  /\ recursive' => \E f \in inbox' : lastIndexOf(f, "/") > 0
  /\ pc' = "start"
  /\ supportedFiles' = <<>>
  /\ fileIdx' = 0
  /\ programFiles' = <<>>
  /\ byChapter' = <<>>
  /\ processed' = 0
  /\ skipped' = 0
  /\ utilities' = 0
  /\ progIdx' = 0
  /\ faults' = {}
  /\ ioLog' = <<>>
  /\ UNCHANGED outputVars
  /\ UNCHANGED watchVars

\* cleanGenerated: the items of the docs directory whose name starts with
\* 'chapter' are removed with all below them, and the whole static root
Clean ==
  /\ pc \in {"done", "crashed"}
  /\ pc' = "cleaned"
  /\ docsDirs' = {d \in docsDirs : ~startsWith(d[1], S_chapter)}
  /\ docs' = [p \in {q \in DOMAIN docs : ~startsWith(q[1], S_chapter)} |-> docs[p]]
  /\ staticDirs' = {}
  /\ static' = EmptyTree
  /\ UNCHANGED sidebar
  /\ UNCHANGED <<supportedFiles, fileIdx, programFiles, byChapter, processed,
                 skipped, utilities, progIdx, faults, ioLog>>
  /\ UNCHANGED sourceVars
  /\ UNCHANGED runVars
  /\ UNCHANGED watchVars

InitRuns == InitFrom(RunsPool)

NextRuns ==
  \/ Scan \/ GroupFile \/ ProcessProgram \/ UpdateSidebar
  \/ StartRun(RunsPool) \/ Clean

SpecRuns == InitRuns /\ [][NextRuns]_vars

(***************************************************************************)
(* watchMode: the initial run, then fs.watch on the source directory with  *)
(* a debounced re-run.  The script is one thread with an event loop: the   *)
(* callback of fs.watch and the callback of the timer are run by the loop  *)
(* one at a time, and only when no other code of the script is running.    *)
(* Time passes in steps of half the debounce wait.                         *)
(***************************************************************************)
\* the source directory watched, and the names notifications carry
WatchPool ==
  { S_Chapt \o <<"1","0">> \o S_Fig \o <<"1">> \o Ext_m,
    S_Chapt \o <<"1","0">> \o S_Fig \o <<"1">> \o <<".","P","D","F">>,
    <<"n","o","t","e","s",".","m","d">> }

\* a notification without a file name
NoName == <<>>

\* the step of time
HalfWait == DebounceWait \div 2

\* no code of the script is running: processAllPrograms is synchronous, so
\* the loop gets control back only when the run has returned
LoopIdle_Always == TRUE

LoopIdle == pc = "done"

\* the test of the callback of fs.watch on the file name of a notification,
\* without the conversion to lower case
WatchFilter_CaseSensitive(filename) ==
  /\ Len(filename) > 0
  /\ extname(filename) \in SUPPORTED_EXTENSIONS

\* the test of the callback of fs.watch on the file name of a notification
WatchFilter(filename) ==
  /\ Len(filename) > 0
  /\ toLowerCase(extname(filename)) \in SUPPORTED_EXTENSIONS

\* the function debounce returns that leaves a pending timer running
executedFunction_KeepsTimer(t) ==
  IF t.set THEN t ELSE [set |-> TRUE, due |-> DebounceWait]

\* the function debounce returns, on the timer handle: clearTimeout, then
\* setTimeout(later, wait)
executedFunction(t) == [set |-> TRUE, due |-> DebounceWait]

\* watchMode after the initial run: without the source directory it returns,
\* otherwise fs.watch registers the callback or throws
StartWatch ==
  /\ pc = "done"
  /\ watcher = "none"
  /\ watcher' \in IF inboxExists THEN {"open", "failed"} ELSE {"absent"}
  /\ UNCHANGED <<timeout, pending, lastChange, notified, burst, bursts, callback>>
  /\ UNCHANGED <<pc, supportedFiles, fileIdx, programFiles, byChapter,
                 processed, skipped, utilities, progIdx, faults, ioLog>>
  /\ UNCHANGED sourceVars
  /\ UNCHANGED outputVars
  /\ UNCHANGED runVars

\* the operating system raises a change notification for the watched
\* directory; between runs the change may add or remove the file named.  An
\* idle loop runs a timer that is due before anything raised later.
Notify ==
  /\ watcher = "open"
  /\ pc # "crashed"
  /\ notified < MaxEvents
  /\ ~(LoopIdle /\ timeout.set /\ timeout.due = 0)
  /\ \E filename \in WatchPool \cup {NoName} :
       /\ pending' = Append(pending, [filename |-> filename,
                                      during |-> IF pc = "done" THEN 0 ELSE run])
       /\ lastChange' = IF WatchFilter(filename) THEN 0 ELSE lastChange
       /\ inbox' \in IF pc = "done" /\ filename \in WatchPool
                     THEN {inbox, inbox \cup {filename}, inbox \ {filename}}
                     ELSE {inbox}
  /\ notified' = notified + 1
  /\ UNCHANGED <<inboxExists, recursive>>
  /\ UNCHANGED <<watcher, timeout, burst, bursts, callback>>
  /\ UNCHANGED <<pc, supportedFiles, fileIdx, programFiles, byChapter,
                 processed, skipped, utilities, progIdx, faults, ioLog>>
  /\ UNCHANGED outputVars
  /\ UNCHANGED runVars

\* the callback of fs.watch, run by the loop for the oldest notification
WatchCallback ==
  /\ watcher = "open"
  /\ LoopIdle
  /\ pending # <<>>
  /\ LET filename == Head(pending).filename
     IN /\ callback' = [n |-> callback.n + 1, filename |-> filename,
                        timer |-> timeout, during |-> Head(pending).during]
        /\ IF WatchFilter(filename)
           THEN /\ timeout' = executedFunction(timeout)
                /\ burst' = IF timeout.set THEN burst + 1 ELSE 1
                /\ bursts' = IF timeout.set THEN bursts ELSE bursts + 1
           ELSE UNCHANGED <<timeout, burst, bursts>>
  /\ pending' = Tail(pending)
  /\ UNCHANGED <<watcher, lastChange, notified>>
  /\ UNCHANGED <<pc, supportedFiles, fileIdx, programFiles, byChapter,
                 processed, skipped, utilities, progIdx, faults, ioLog>>
  /\ UNCHANGED sourceVars
  /\ UNCHANGED outputVars
  /\ UNCHANGED runVars

\* half the debounce wait passes; an idle loop with a notification to hand
\* over or a timer that is due does that first
Tick ==
  /\ watcher = "open"
  /\ pc # "crashed"
  /\ ~(LoopIdle /\ (pending # <<>> \/ (timeout.set /\ timeout.due = 0)))
  /\ timeout' = IF timeout.set /\ timeout.due >= HalfWait
                THEN [timeout EXCEPT !.due = @ - HalfWait]
                ELSE timeout
  /\ lastChange' = IF lastChange + HalfWait <= DebounceWait
                   THEN lastChange + HalfWait
                   ELSE DebounceWait
  /\ UNCHANGED <<watcher, pending, notified, burst, bursts, callback>>
  /\ UNCHANGED <<pc, supportedFiles, fileIdx, programFiles, byChapter,
                 processed, skipped, utilities, progIdx, faults, ioLog>>
  /\ UNCHANGED sourceVars
  /\ UNCHANGED outputVars
  /\ UNCHANGED runVars

\* the timer of debounce fires: later clears the handle and calls the
\* function given to debounce, which calls processAllPrograms
TimerFires ==
  /\ watcher = "open"
  /\ LoopIdle
  /\ timeout.set
  /\ timeout.due = 0
  /\ run <= MaxRuns
  /\ timeout' = NoTimer
  /\ run' = run + 1
  /\ prev' = [op |-> "run", inboxExists |-> inboxExists, inbox |-> inbox,
              supportedFiles |-> supportedFiles, faults |-> faults,
              out |-> Out]
  /\ pc' = "start"
  /\ supportedFiles' = <<>>
  /\ fileIdx' = 0
  /\ programFiles' = <<>>
  /\ byChapter' = <<>>
  /\ processed' = 0
  /\ skipped' = 0
  /\ utilities' = 0
  /\ progIdx' = 0
  /\ faults' = {}
  /\ ioLog' = <<>>
  /\ UNCHANGED <<watcher, pending, lastChange, notified, burst, bursts, callback>>
  /\ UNCHANGED sourceVars
  /\ UNCHANGED outputVars

InitWatch == InitFrom(WatchPool)

NextWatch ==
  \/ Scan \/ GroupFile \/ ProcessProgram \/ UpdateSidebar
  \/ StartWatch \/ Notify \/ WatchCallback \/ Tick \/ TimerFires

SpecWatch == InitWatch /\ [][NextWatch]_vars

(***************************************************************************)
(* Vocabulary of the properties.                                           *)
(***************************************************************************)
\* the first pass of the run is complete
GroupingDone == pc \in {"emit", "sidebar", "done", "crashed"}

\* the file name of a scanned path
FileName(path) == basename(path)

\* the base name of a file name: the name minus its extension
BaseName(filename) ==
  LET dot == lastIndexOf(filename, ".")
  IN IF dot > 1 THEN SubSeq(filename, 1, dot - 1) ELSE filename

AllDigits(s) == \A i \in 1..Len(s) : IsDigit(s[i])

\* the variant suffix of the filename grammar: a lower-case letter and digits
IsVariant(s) == Len(s) >= 1 /\ IsLower(s[1]) /\ AllDigits(SubSeq(s, 2, Len(s)))

\* the discriminator token, in any casing
IsDiscriminator(s) == toLowerCase(s) \in {toLowerCase(S_Exercise), toLowerCase(S_Fig)}

\* the ways to read b as Chapt <digits> <Exercise|Fig> <digits> [<variant>],
\* as <<end of chapter, end of token, end of number>>
GrammarSplits(b) ==
  {sp \in (6..Len(b)) \X (6..Len(b)) \X (6..Len(b)) :
     /\ sp[1] < sp[2] /\ sp[2] < sp[3]
     /\ sp[2] - sp[1] \in {3, 8}
     /\ SubSeq(b, 1, 5) = S_Chapt
     /\ AllDigits(SubSeq(b, 6, sp[1]))
     /\ IsDiscriminator(SubSeq(b, sp[1] + 1, sp[2]))
     /\ AllDigits(SubSeq(b, sp[2] + 1, sp[3]))
     /\ (sp[3] = Len(b) \/ IsVariant(SubSeq(b, sp[3] + 1, Len(b))))}

\* the filename grammar: case-insensitive on the discriminator token only
Grammar(b) == Len(b) >= 10 /\ GrammarSplits(b) # {}

\* the discriminator in its canonical casing
Canonical(token) == IF Len(token) = 8 THEN S_Exercise ELSE S_Fig

\* the programId of a base name of the grammar: Chapt, chapter digits,
\* canonical discriminator, number, variant
CanonicalProgramId(b) ==
  LET sp == CHOOSE x \in GrammarSplits(b) : TRUE
  IN S_Chapt \o SubSeq(b, 6, sp[1]) \o Canonical(SubSeq(b, sp[1] + 1, sp[2]))
       \o SubSeq(b, sp[2] + 1, Len(b))

\* the variant of a base name of the grammar
VariantOf(b) ==
  LET sp == CHOOSE x \in GrammarSplits(b) : TRUE
  IN SubSeq(b, sp[3] + 1, Len(b))

\* the positions <<group, member>> of all members of all groups
Members ==
  UNION {{<<g, j>> : j \in 1..Len(programFiles[g].files)} : g \in 1..Len(programFiles)}

MemberAt(x) == programFiles[x[1]].files[x[2]]

GroupOf(x) == programFiles[x[1]]

(***************************************************************************)
(* C1 .. C10                                                               *)
(***************************************************************************)
\* the supported files of the run have pairwise different file names, share
\* one base name, and that base name is of the grammar
C1_OneBaseName ==
  /\ GroupingDone
  /\ Len(supportedFiles) >= 1
  /\ \A i, j \in 1..Len(supportedFiles) :
       /\ i # j => FileName(supportedFiles[i]) # FileName(supportedFiles[j])
       /\ BaseName(FileName(supportedFiles[i])) = BaseName(FileName(supportedFiles[j]))
  /\ Grammar(BaseName(FileName(supportedFiles[1])))

\* C1: source files that share one base name of the grammar and differ only
\* in their supported extension give exactly one program group after the
\* grouping pass; its key is the programId of that base name, it has as many
\* members as there are files, and every file has the programId, chapter key
\* and display label of the group.
C1_SameBaseNameOneGroup ==
  C1_OneBaseName =>
    /\ Len(programFiles) = 1
    /\ Len(programFiles[1].files) = Len(supportedFiles)
    /\ \A i \in 1..Len(supportedFiles) :
         LET info == extractProgramInfo(FileName(supportedFiles[i]))
         IN /\ programFiles[1].programId = info.programId
            /\ programFiles[1].programInfo.programId = info.programId
            /\ programFiles[1].programInfo.chapterNum = info.chapterNum
            /\ programFiles[1].programInfo.displayName = info.displayName

\* three formats of one program have been grouped and the run has ended
C1_Witness ==
  /\ C1_OneBaseName
  /\ pc = "done"
  /\ Len(supportedFiles) = 3
  /\ Len(programFiles) = 1
  /\ Len(programFiles[1].files) = 3

\* C2: two supported files whose base names differ are never members of the
\* same program group.
C2_DifferentBaseNamesDifferentGroups ==
  \A x, y \in Members :
    BaseName(MemberAt(x).filename) # BaseName(MemberAt(y).filename) => x[1] # y[1]

\* C3: a file is classified as a chapter program exactly when its base name
\* is of the grammar (case-insensitive on the Exercise|Fig token only); every
\* other supported file is a Utility.
C3_ChapterProgramIffGrammar ==
  \A x \in Members :
    (~extractProgramInfo(MemberAt(x).filename).isUtility)
      <=> Grammar(BaseName(MemberAt(x).filename))

\* C4: for a base name of the grammar the programId is Chapt + chapter +
\* canonical discriminator + number + variant, the display label shows the
\* variant in upper case.
C4_CanonicalProgramId ==
  \A x \in Members :
    LET b    == BaseName(MemberAt(x).filename)
        info == extractProgramInfo(MemberAt(x).filename)
    IN Grammar(b) =>
         /\ info.programId = CanonicalProgramId(b)
         /\ GroupOf(x).programId = CanonicalProgramId(b)
         /\ endsWith(info.displayName, toUpperCase(VariantOf(b)))

\* C5: a supported file whose base name is not of the grammar is grouped as
\* a Utility: the key of its group is its exact base name, its chapter key is
\* 'utilities', and all members of its group have its base name.
C5_NonMatchingIsUtility ==
  GroupingDone =>
    \A i \in 1..Len(supportedFiles) :
      LET b == BaseName(FileName(supportedFiles[i]))
      IN ~Grammar(b) =>
           \E x \in Members :
             /\ MemberAt(x).filePath = supportedFiles[i]
             /\ GroupOf(x).programId = b
             /\ GroupOf(x).programInfo.chapterNum = S_utilities
             /\ \A y \in Members :
                  y[1] = x[1] => BaseName(MemberAt(y).filename) = b

FaultsFor(target) == {f \in faults : f.target = target}

\* the second pass has handled group g completely
Emitted(g) == g <= progIdx /\ ~(pc = "crashed" /\ g = progIdx)

\* the members of group g whose detail page was written
Written(g) ==
  {j \in 1..Len(programFiles[g].files) :
     FaultsFor(programFiles[g].files[j].filePath) \subseteq
       {[target |-> programFiles[g].files[j].filePath, call |-> "readFail"]}}

\* the documents of a directory of the docs tree
DocsIn(dir) == {p \in DOMAIN docs : SubSeq(p, 1, 2) = dir}

D_chapter3 == S_chapter \o <<"3">>

F_matlabMdx == B_Chapt3Exercise10 \o <<"_","m","a","t","l","a","b">> \o Ext_mdx

F_pdfMdx == B_Chapt3Exercise10 \o <<"_","p","d","f">> \o Ext_mdx

F_latexMdx == B_Chapt3Exercise10 \o <<"_","l","a","t","e","x">> \o Ext_mdx

\* the source holds exactly Chapt3Exercise10.m, .pdf and .tex, and the run
\* has ended without a failing call
C7_Scenario ==
  /\ inbox = {B_Chapt3Exercise10 \o Ext_m, B_Chapt3Exercise10 \o Ext_pdf,
              B_Chapt3Exercise10 \o Ext_tex}
  /\ pc = "done"
  /\ faults = {}

\* C7: the run over Chapt3Exercise10.m, .pdf, .tex gives one group, the docs
\* directory chapter3/Chapt3Exercise10 with three detail documents and one
\* index document, three static files below matlab/, pdf/ and latex/, and one
\* navigation entry 'Exercise 10' in the category of chapter 3; in general a
\* group with k written members of pairwise different types has k detail
\* documents and one index document in <chapter segment>/<programId>.
C7_EndToEnd ==
  /\ C7_Scenario =>
       /\ Len(programFiles) = 1
       /\ docsDirs = {<<D_chapter3>>, <<D_chapter3, B_Chapt3Exercise10>>}
       /\ DOMAIN docs = {<<D_chapter3, B_Chapt3Exercise10, F_matlabMdx>>,
                         <<D_chapter3, B_Chapt3Exercise10, F_pdfMdx>>,
                         <<D_chapter3, B_Chapt3Exercise10, F_latexMdx>>,
                         <<D_chapter3, B_Chapt3Exercise10, S_indexMdx>>}
       /\ docs[<<D_chapter3, B_Chapt3Exercise10, S_indexMdx>>].page = "index"
       /\ DOMAIN static =
            {<<"matlab", B_Chapt3Exercise10, B_Chapt3Exercise10 \o Ext_m>>,
             <<"pdf", B_Chapt3Exercise10, B_Chapt3Exercise10 \o Ext_pdf>>,
             <<"latex", B_Chapt3Exercise10, B_Chapt3Exercise10 \o Ext_tex>>}
       /\ sidebar.categories =
            <<[label |-> <<"C","h"," ","3",":"," ","Quantum Wells and Barriers">>,
               items |-> <<[id    |-> <<D_chapter3, B_Chapt3Exercise10, S_index>>,
                            label |-> S_Exercise \o <<" ","1","0">>]>>]>>
  /\ \A g \in 1..Len(programFiles) :
       LET info  == programFiles[g].programInfo
           files == programFiles[g].files
           dir   == <<IF info.isUtility THEN S_utilities ELSE S_chapter \o info.chapterNum,
                      programFiles[g].programId>>
       IN ( /\ Emitted(g)
            /\ FaultsFor(programFiles[g].programId) = {}
            /\ Written(g) # {}
            /\ \A i, j \in Written(g) : i # j => files[i].config.type # files[j].config.type )
          => /\ Cardinality({p \in DocsIn(dir) : docs[p].page = "detail"})
                  = Cardinality(Written(g))
             /\ Cardinality({p \in DocsIn(dir) : docs[p].page = "index"}) = 1
             /\ dir \in docsDirs

\* the scenario of C7 has run to its end
C7_Witness == C7_Scenario /\ Len(programFiles) = 1 /\ processed = 3

\* the copies of the run
Copies == {i \in 1..Len(ioLog) : ioLog[i].call = "copy"}

\* C8: every member is copied to <type tag>/<programId>/<original file name>
\* with the type tag of the file-type table, and two members of the same type
\* whose file names differ are never copied to the same path.
C8_StaticDestination ==
  /\ \A i \in Copies :
       LET filename == FileName(ioLog[i].src)
           tag      == FILE_TYPES[toLowerCase(extname(filename))].type
       IN /\ \E x \in Members :
               /\ MemberAt(x).filePath = ioLog[i].src
               /\ ioLog[i].dest = <<tag, GroupOf(x).programId, filename>>
          /\ ioLog[i].dest \in DOMAIN static
          /\ FileName(static[ioLog[i].dest]) = filename
  /\ \A i, j \in Copies :
       ( /\ ioLog[i].dest[1] = ioLog[j].dest[1]
         /\ FileName(ioLog[i].src) # FileName(ioLog[j].src) )
       => ioLog[i].dest # ioLog[j].dest

\* two files of one program and one type with different names were copied
C8_Witness ==
  /\ pc = "done"
  /\ \E i, j \in Copies :
       /\ ioLog[i].dest[1] = ioLog[j].dest[1]
       /\ ioLog[i].dest[2] = ioLog[j].dest[2]
       /\ FileName(ioLog[i].src) # FileName(ioLog[j].src)
       /\ ioLog[i].dest # ioLog[j].dest

\* the rank of a type in the order matlab, latex, pdf, html, ipynb, text
TypeRank(t) ==
  CASE t = "matlab" -> 1 [] t = "latex" -> 2 [] t = "pdf" -> 3
    [] t = "html" -> 4 [] t = "ipynb" -> 5 [] t = "text" -> 6

\* C9: an index page lists the members in the order matlab, latex, pdf, html,
\* ipynb, text, members of one type in the order of their file names.
C9_IndexOrder ==
  \A p \in DOMAIN docs :
    docs[p].page = "index" =>
      \A i, j \in 1..Len(docs[p].files) :
        i < j =>
          \/ TypeRank(docs[p].files[i].fileType) < TypeRank(docs[p].files[j].fileType)
          \/ /\ docs[p].files[i].fileType = docs[p].files[j].fileType
             /\ ~StrLess(docs[p].files[j].filename, docs[p].files[i].filename)

\* the chapter key of a sidebar category, read from the id of its first entry
CategoryKey(category) == SubSeq(category.items[1].id[1], 8, Len(category.items[1].id[1]))

\* C10: the categories of the navigation are in ascending numeric chapter
\* order, the 'utilities' category after every numeric chapter.
C10_ChapterOrder ==
  \A i, j \in 1..Len(sidebar.categories) :
    i < j =>
      /\ CategoryKey(sidebar.categories[i]) # S_utilities
      /\ \/ CategoryKey(sidebar.categories[j]) = S_utilities
         \/ parseInt(CategoryKey(sidebar.categories[i])).val
              <= parseInt(CategoryKey(sidebar.categories[j])).val

(***************************************************************************)
(* C11 .. C20                                                              *)
(***************************************************************************)
\* the programIds the run has grouped under chapter key k
ProgramIdsOfChapter(k) ==
  {programFiles[g].programId :
     g \in {h \in 1..Len(programFiles) : programFiles[h].programInfo.chapterNum = k}}

\* the programInfo of the group with key programId
InfoOf(programId) == programFiles[GroupIndex(programFiles, programId)].programInfo

\* the programIds of the entries of a category, in their order
EntryIds(category) == [i \in 1..Len(category.items) |-> category.items[i].id[2]]

\* the sidebar of the state was written by the run of the state
SidebarOfThisRun ==
  /\ pc = "done"
  /\ sidebar.written
  /\ \E i \in 1..Len(ioLog) : ioLog[i].dest = <<"sidebars.js">>

C12_NumericOrderInChapter ==
  SidebarOfThisRun =>
    \A c \in 1..Len(sidebar.categories) :
      LET ids == EntryIds(sidebar.categories[c])
      IN \A i, j \in 1..Len(ids) :
           ( /\ i < j
             /\ ~InfoOf(ids[i]).isUtility
             /\ InfoOf(ids[i]).type = InfoOf(ids[j]).type )
           => parseInt(InfoOf(ids[i]).number).val <= parseInt(InfoOf(ids[j]).number).val

\* stats.byChapter after the first pass over the first n of the files
RECURSIVE ChapterMapOf(_, _)
ChapterMapOf(files, n) ==
  IF n = 0 THEN <<>>
  ELSE AddToChapter(ChapterMapOf(files, n - 1),
                    extractProgramInfo(basename(files[n])).chapterNum,
                    extractProgramInfo(basename(files[n])).programId)

\* C13: the categories written by updateSidebar (their order, entries, ids
\* and labels) are the same for every order in which the files of the source
\* set are enumerated and inserted into the chapter map.
C13_SidebarIndependentOfOrder ==
  SidebarOfThisRun =>
    \A order \in Orders(Range(supportedFiles)) :
      SidebarCategories(ChapterMapOf(order, Len(order))) = sidebar.categories

\* the scanned files the extension filter of processAllPrograms drops
UnsupportedScanned == {f \in ScanResult(inbox, recursive) : ~IsSupported(f)}

\* C14: once the grouping pass of a run with supported files has ended, every
\* scanned file with an unsupported extension has been counted in
\* stats.skipped.
C14_UnsupportedCountedAsSkipped ==
  (GroupingDone /\ Len(supportedFiles) >= 1) =>
    skipped >= Cardinality(UnsupportedScanned)

\* the failed calls of the run that are counted in stats.skipped: copying a
\* member and writing its detail page
MemberFailures == {f \in faults : f.call \in {"copyFail", "writeFail"}}

\* C15: no failing file-system call made for one member or group (creating
\* its directory, copying, writing its pages) ends the run: the failure is
\* counted as skipped, every group is processed and the sidebar is written.
C15_FailureNeverStopsRun ==
  /\ pc # "crashed"
  /\ skipped >= Cardinality(MemberFailures)
  /\ (pc = "done" /\ Len(supportedFiles) >= 1) =>
       /\ progIdx = Len(programFiles)
       /\ \/ \E i \in 1..Len(ioLog) : ioLog[i].dest = <<"sidebars.js">>
          \/ \E f \in faults : f.call = "sidebarFail"

\* C16: a run that starts without the source directory ends without a write:
\* the docs tree, the static tree and sidebars.js are what they were when the
\* run started, and no copy or write was made.
C16_MissingSourceNoWrite ==
  (~inboxExists /\ pc \in {"start", "done"}) =>
    /\ Out = prev.out
    /\ ioLog = <<>>
    /\ supportedFiles = <<>>

\* a run without source directory has ended on the output of an earlier run
C16_Witness ==
  /\ ~inboxExists
  /\ pc = "done"
  /\ prev.op = "run"
  /\ DOMAIN docs # {}
  /\ DOMAIN static # {}
  /\ sidebar.written

\* the programIds the sidebar lists
SidebarPrograms ==
  UNION {Range(EntryIds(sidebar.categories[c])) : c \in 1..Len(sidebar.categories)}

\* the programIds the run has grouped
GroupedPrograms == {programFiles[g].programId : g \in 1..Len(programFiles)}

\* C17: after every run that found the source directory and had no failing
\* call, the sidebar lists exactly the programs the run grouped from the
\* source set it scanned, whatever it listed before the run.
C17_SidebarOfCurrentSource ==
  (pc = "done" /\ inboxExists /\ faults = {}) => SidebarPrograms = GroupedPrograms

\* C18: after clean no generated output remains: every chapter-scoped docs
\* directory (numeric chapters and 'utilities') with its documents is gone,
\* and so is the whole static output root.
C18_CleanRemovesGenerated ==
  pc = "cleaned" =>
    /\ docsDirs = {}
    /\ DOMAIN docs = {}
    /\ staticDirs = {}
    /\ DOMAIN static = {}

\* the documents the run of the state has written below the docs directory
WrittenDocs ==
  {ioLog[i].dest : i \in {j \in 1..Len(ioLog) :
                            ioLog[j].call = "write" /\ ioLog[j].dest # <<"sidebars.js">>}}

\* the files the run of the state has copied below the static root
CopiedFiles == {ioLog[i].dest : i \in Copies}

\* the directories the run of the state has asked ensureDir for
EnsuredDocsDirs ==
  UNION {WithParents(ProgramDocsDir(programFiles[g].programInfo)) \ {<<>>} :
           g \in 1..progIdx}

EnsuredStaticDirs ==
  UNION {WithParents(ProgramStaticDir(GroupOf(x).programId, MemberAt(x).config)) :
           x \in {y \in Members : y[1] <= progIdx}}

\* the output tree is the one the run of the state leaves on an empty tree:
\* it holds what this run created and wrote, and nothing else
OutputOfFreshRun ==
  /\ docsDirs = EnsuredDocsDirs
  /\ DOMAIN docs = WrittenDocs
  /\ staticDirs = EnsuredStaticDirs
  /\ DOMAIN static = CopiedFiles
  /\ sidebar.written => \E i \in 1..Len(ioLog) : ioLog[i].dest = <<"sidebars.js">>

\* C19: a run over supported files, without failing call, that was started
\* right after clean leaves exactly the output tree that the same run leaves
\* on an empty tree, whatever the runs before the clean had produced.
C19_CleanThenRunIsFreshRun ==
  (pc = "done" /\ prev.op = "clean" /\ faults = {} /\ Len(supportedFiles) >= 1)
    => OutputOfFreshRun

\* the run of the state and the run before it had the same source directory,
\* enumerated in the same order, and no failing call
SameSourceTwice ==
  /\ prev.op = "run"
  /\ prev.inboxExists = inboxExists
  /\ prev.inbox = inbox
  /\ prev.supportedFiles = supportedFiles
  /\ prev.faults = {}
  /\ faults = {}

\* C20: the second of two consecutive runs on an unchanged source directory
\* leaves the docs tree, the static tree and the categories of the sidebar
\* exactly as the first run left them.
C20_SecondRunChangesNothing ==
  (pc = "done" /\ SameSourceTwice) => Out = prev.out

\* a program with two formats and a utility have been generated twice
C20_Witness ==
  /\ pc = "done"
  /\ SameSourceTwice
  /\ Len(supportedFiles) = 3
  /\ Len(programFiles) = 2
  /\ processed = 3
  /\ sidebar.written
  /\ Cardinality(DOMAIN docs) = 5

(***************************************************************************)
(* C21 .. C30                                                              *)
(***************************************************************************)
\* the detail pages the run of the state has written
DetailWrites ==
  {i \in 1..Len(ioLog) : ioLog[i].call = "write" /\ Len(ioLog[i].dest) = 3
                          /\ ioLog[i].dest[3] # S_indexMdx}

\* C24: within one run no two member files with different file names are
\* written to the same detail-page path.
C24_DetailPathsUnique ==
  \A i, j \in DetailWrites :
    ioLog[i].dest = ioLog[j].dest => FileName(ioLog[i].src) = FileName(ioLog[j].src)

\* the display name of chapter number n in the static lookup, or the generic
\* name 'Chapter n'
NameOfChapterNumber(n) ==
  IF NumToStr(n) \in DOMAIN CHAPTER_NAMES
  THEN <<CHAPTER_NAMES[NumToStr(n)]>>
  ELSE S_ChapterSp \o NumToStr(n)

\* C25: a file with any chapter number is grouped as a chapter program, and
\* the title of the category of chapter number N is 'Ch N: ' followed by the
\* display name the static lookup has for N, or by the generic 'Chapter N'
\* when the lookup has none.
C25_CategoryTitle ==
  /\ \A x \in Members :
       PROGRAM_PATTERN(BaseName(MemberAt(x).filename)).ok
         => ~GroupOf(x).programInfo.isUtility
  /\ SidebarOfThisRun =>
       \A c \in 1..Len(sidebar.categories) :
         LET k == CategoryKey(sidebar.categories[c])
         IN k # S_utilities =>
              sidebar.categories[c].label =
                <<"C","h"," ">> \o NumToStr(parseInt(k)) \o <<":"," ">>
                  \o NameOfChapterNumber(parseInt(k))

\* C26: every entry of the sidebar a run has written refers to an index
\* document this run has written: for the id <dir>/<programId>/index the run
\* wrote <dir>/<programId>/index.mdx below the docs directory.
C26_SidebarRefersToWrittenIndex ==
  SidebarOfThisRun =>
    \A c \in 1..Len(sidebar.categories) :
      \A i \in 1..Len(sidebar.categories[c].items) :
        LET id == sidebar.categories[c].items[i].id
        IN <<id[1], id[2], id[3] \o Ext_mdx>> \in WrittenDocs

\* the run has reached its summary
SummaryReached == pc = "done" /\ Len(supportedFiles) >= 1

\* C27: at the summary of a run the processed count plus the skipped count is
\* the number of supported files scanned.
C27_ProcessedPlusSkipped ==
  SummaryReached => processed + skipped = Len(supportedFiles)

\* a run has ended with files processed and a file skipped
C27_Witness ==
  /\ SummaryReached
  /\ Len(supportedFiles) = 3
  /\ processed = 2
  /\ skipped = 1

\* the chapter keys of stats.byChapter that hold programId
ChaptersHolding(programId) ==
  {k \in 1..Len(byChapter) : programId \in Range(byChapter[k].programs)}

\* C28: no two program groups of a run share a docs directory, every
\* programId is under exactly one chapter key, a Utility never has the
\* programId of a chapter program, and every file has the chapter segment of
\* its group.
C28_GroupsHaveOwnDirectory ==
  GroupingDone =>
    /\ \A g, h \in 1..Len(programFiles) :
         g # h =>
           /\ ProgramDocsDir(programFiles[g].programInfo)
                # ProgramDocsDir(programFiles[h].programInfo)
           /\ ( programFiles[g].programInfo.isUtility
                /\ ~programFiles[h].programInfo.isUtility )
              => programFiles[g].programId # programFiles[h].programId
    /\ \A g \in 1..Len(programFiles) :
         /\ Cardinality(ChaptersHolding(programFiles[g].programId)) = 1
         /\ \A k \in ChaptersHolding(programFiles[g].programId) :
              byChapter[k].chapterNum = programFiles[g].programInfo.chapterNum
    /\ \A x \in Members :
         /\ extractProgramInfo(MemberAt(x).filename).chapter = GroupOf(x).programInfo.chapter
         /\ extractProgramInfo(MemberAt(x).filename).programId = GroupOf(x).programId

\* a utility and two programs of one chapter that differ in the casing of
\* the variant have been grouped
C28_Witness ==
  /\ GroupingDone
  /\ Len(programFiles) = 3
  /\ \E g, h, u \in 1..3 :
       /\ g # h
       /\ programFiles[u].programInfo.isUtility
       /\ ~programFiles[g].programInfo.isUtility
       /\ ~programFiles[h].programInfo.isUtility
       /\ programFiles[g].programInfo.chapterNum = programFiles[h].programInfo.chapterNum
       /\ toLowerCase(programFiles[g].programId) = toLowerCase(programFiles[h].programId)

\* C29: the sidebar label of a Utility program is its programId unchanged.
C29_UtilityLabelIsProgramId ==
  SidebarOfThisRun =>
    \A c \in 1..Len(sidebar.categories) :
      \A i \in 1..Len(sidebar.categories[c].items) :
        InfoOf(sidebar.categories[c].items[i].id[2]).isUtility =>
          sidebar.categories[c].items[i].label = sidebar.categories[c].items[i].id[2]

\* the paths planned for the members the run has grouped: detail pages and
\* index pages below the docs directory, copies below the static root
PlannedDocs ==
  {Append(ProgramDocsDir(GroupOf(x).programInfo),
          DetailFileName(GroupOf(x).programId, MemberAt(x).config)) : x \in Members}
  \cup {Append(ProgramDocsDir(programFiles[g].programInfo), S_indexMdx) :
          g \in 1..Len(programFiles)}

PlannedStatic ==
  {StaticDestPath(GroupOf(x).programId, MemberAt(x).filename, MemberAt(x).config) :
     x \in Members}

\* C30: a run creates or overwrites only the paths planned for the files of
\* its source set and sidebars.js; every other document, static file and
\* directory that existed when the run started is still there, unchanged.
C30_RunOnlyAddsAndOverwrites ==
  pc # "cleaned" =>
    /\ WrittenDocs \subseteq PlannedDocs
    /\ CopiedFiles \subseteq PlannedStatic
    /\ DOMAIN docs = DOMAIN prev.out.docs \cup WrittenDocs
    /\ DOMAIN static = DOMAIN prev.out.static \cup CopiedFiles
    /\ \A p \in DOMAIN prev.out.docs \ WrittenDocs : docs[p] = prev.out.docs[p]
    /\ \A p \in DOMAIN prev.out.static \ CopiedFiles : static[p] = prev.out.static[p]
    /\ prev.out.docsDirs \subseteq docsDirs
    /\ prev.out.staticDirs \subseteq staticDirs
    /\ (sidebar # prev.out.sidebar) => SidebarOfThisRun

\* a run on a changed source has ended; the pages and the copy of a program
\* whose files are gone are still in the trees, beside those of this run
C30_Witness ==
  /\ pc = "done"
  /\ prev.op = "run"
  /\ WrittenDocs # {}
  /\ CopiedFiles # {}
  /\ \E p \in DOMAIN prev.out.docs : p \notin PlannedDocs /\ p \in DOMAIN docs
  /\ \E p \in DOMAIN prev.out.static : p \notin PlannedStatic /\ p \in DOMAIN static

(***************************************************************************)
(* Watch mode: C21 .. C23                                                  *)
(***************************************************************************)
\* the re-runs started so far are the bursts whose timer has fired
OneRerunPerBurst == run = 1 + bursts - (IF timeout.set THEN 1 ELSE 0)

\* C21: a burst of notifications for supported files, each handed over while
\* the timer armed by the one before is still pending, triggers exactly one
\* re-run, and the re-run starts only when the debounce wait (1000 ms) has
\* passed since the last notification for a supported file.
C21_BurstTriggersOneRerun ==
  /\ []OneRerunPerBurst
  /\ [][run' # run => /\ burst >= 1
                       /\ lastChange >= DebounceWait
                       /\ ~timeout'.set]_vars

\* the re-run of a burst of two notifications has completed, and it is the
\* only re-run
C21_Witness ==
  /\ watcher = "open"
  /\ bursts = 1
  /\ burst >= 2
  /\ run = 2
  /\ pc = "done"
  /\ ~timeout.set

\* C22: the callback of fs.watch arms the debounce timer if and only if the
\* notification carries a file name whose extension in lower case is in the
\* supported set; for any other notification the pending timer stays as it
\* is; the callback itself starts no run and changes no output.
C22_SupportedNotificationSchedules ==
  [][callback'.n # callback.n =>
       /\ IF /\ Len(callback'.filename) > 0
             /\ toLowerCase(extname(callback'.filename)) \in SUPPORTED_EXTENSIONS
          THEN timeout' = [set |-> TRUE, due |-> DebounceWait]
          ELSE timeout' = timeout
       /\ Out' = Out
       /\ run' = run
       /\ pc' = pc]_vars

\* a notification for a file that is not supported was handed over while a
\* timer was pending, and the timer is still pending
C22_Witness ==
  /\ callback.n > 0
  /\ Len(callback.filename) > 0
  /\ ~IsSupported(callback.filename)
  /\ callback.timer.set
  /\ timeout.set
  /\ run = 1

\* C23: a re-run starts only when no run is in progress, so runs never
\* overlap; a notification raised during a run is handed over after it.
C23_RunsNeverOverlap ==
  [][run' # run => pc = "done" /\ pc' = "start"]_vars

\* a notification for a supported file was raised during a re-run, and a
\* later re-run has completed
C23_Witness ==
  /\ callback.during > 1
  /\ IsSupported(callback.filename)
  /\ run > callback.during
  /\ pc = "done"
====
